---- MODULE Spec2Model ----
(***************************************************************************)
(* A model of the circular template engine:                                *)
(*   - the update scheduler of Template (tpl.py, class Template),          *)
(*   - key canonicalisation of PrefixLookupDict (tpl.py),                   *)
(*   - plugin discovery and construction in TplNode.__init__ (tpl.py),     *)
(*   - named templates and includes (tags/template.py).                    *)
(* Each part has its own specification over the shared variables.          *)
(***************************************************************************)
EXTENDS Integers, Sequences, FiniteSets, TLC

\* Python's None, used where the other values are positive integers.
None == 0

(***************************************************************************)
(* Bounds of the scheduler model.                                          *)
(***************************************************************************)
\* The number of bursts of change notifications that may begin.
MaxBursts == 3
\* The number of change notifications in one burst.
MaxBurstLen == 3
\* The number of change notifications emitted while one update() executes.
MaxReentrant == 2
\* The number of update() invocations (only a mutated scheduler exceeds MaxBursts).
MaxUpdates == 5
\* The number of child elements of the parent of the template's element.
MaxChildren == 3

(***************************************************************************)
(* Bounds of the canonicalisation model.                                   *)
(***************************************************************************)
\* The length of a key given to a PrefixLookupDict.
MaxKeyLen == 2

(***************************************************************************)
(* Bounds of the compilation model.                                        *)
(***************************************************************************)
\* The number of attributes of a markup element.
MaxAttrs == 3
\* The number of TplNode constructions that may start.
MaxNodes == 3

(***************************************************************************)
(* Bounds of the named-template model.                                     *)
(***************************************************************************)
\* The number of TplNode constructions that may start.
MaxHeapNodes == 7
\* The number of changes of one context's data.
MaxData == 1

VARIABLES
    \* ---- TplNode and the markup (tpl.py:51-153)
    PLUGINS,        \* TplNode.PLUGINS (tpl.py:52): [prefix, d]
    live_attrs,     \* element.attributes is a live collection (else a copy)
    elems,          \* the markup elements: nodeName, attributes, _plugins
    hash_seq,       \* TplNode._HASH_SEQ (tpl.py:53)
    nodes,          \* the TplNodes constructed: _hash -> [plugin]
    objs,           \* the plugin objects constructed
    err,            \* the exception the last operation raised, "" if none
    discoveries,    \* per element, how often its first pass (tpl.py:107-123) ran
    discovered,     \* per element, the list its first pass cached (tpl.py:123)
    \* ---- named templates (tags/template.py)
    TEMPLATE_CACHE, \* per context, ctx.circular.TEMPLATE_CACHE: name -> TemplatePlugin
    ctx_data,       \* per context, the version of its data
    call,           \* the operation invoked last: [op], with [target, arg] of a
                    \* bind, bind_ctx, update or fetch
    bind_errors,    \* the Include objects whose bind_ctx raised a lookup error
    \* ---- a PrefixLookupDict, as TplNode.PLUGINS is (tpl.py:8-49)
    prefix,         \* PrefixLookupDict._prefix (tpl.py:11, 33)
    store,          \* the entries of the dict: canonical key -> value
    key1,           \* a key given to a lookup
    key2,           \* another spelling of key1: other case, other '-' and '_'
    \* ---- Template (tpl.py:206-228)
    tpl_elem,       \* Template.elem (tpl.py:208, 214): an element id
    childNodes,     \* the children of Template.elem's parent, in document order
    elem_seq,       \* the id of the next element the document creates
    subscribed,     \* bind_ctx has bound root 'change' to _start_timer (tpl.py:215)
    update_timer,   \* Template.update_timer (tpl.py:209): None or an interval id
    timers,         \* the interval timers that are live in browser.timer
    timer_seq,      \* the id the next timer.set_interval returns
    in_update,      \* TRUE while Template.update is executing root.update() (tpl.py:225)
    \* ---- bookkeeping of the scheduler's history
    burst,          \* notifications delivered since the last tick, outside update()
    last_burst,     \* the size of the burst the last tick served
    bursts,         \* bursts begun
    updates,        \* update() invocations
    reentrant,      \* notifications delivered during the update() in progress
    owed,           \* notifications delivered during an update() and not yet
                    \* followed by a further update() invocation
    reentered       \* some notification has been delivered during an update()

domVars == <<tpl_elem, childNodes, elem_seq>>

schedVars == <<subscribed, update_timer, timers, timer_seq, in_update,
               burst, last_burst, bursts, updates, reentrant, owed, reentered,
               tpl_elem, childNodes, elem_seq>>

canonVars == <<prefix, store, key1, key2>>

tplVars == <<PLUGINS, live_attrs, elems, hash_seq, nodes, objs, err, discoveries, discovered>>

tagsVars == <<TEMPLATE_CACHE, ctx_data, call, bind_errors>>

vars == <<PLUGINS, live_attrs, elems, hash_seq, nodes, objs, err, discoveries, discovered,
          TEMPLATE_CACHE, ctx_data, call, bind_errors,
          prefix, store, key1, key2, subscribed, update_timer, timers, timer_seq, in_update,
          burst, last_burst, bursts, updates, reentrant, owed, reentered,
          tpl_elem, childNodes, elem_seq>>

(***************************************************************************)
(* Strings are sequences of one-character strings.                         *)
(***************************************************************************)

\* The characters of the keys: a letter in both cases, a letter in lower case,
\* and the two characters canonicalisation removes.
KeyChars == {"t", "T", "f", "-", "_"}

\* All strings over the characters cs of length at most n.
Strings(cs, n) == UNION {[1..m -> cs] : m \in 0..n}

\* The letters of the names the model uses, in lower and in upper case.
LowerLetters == <<"a", "c", "d", "e", "f", "i", "l", "m", "n", "o", "p", "r", "s", "t", "u", "v", "x">>
UpperLetters == <<"A", "C", "D", "E", "F", "I", "L", "M", "N", "O", "P", "R", "S", "T", "U", "V", "X">>

\* str.upper() on one character (tpl.py:20, 33).
UpperChar(c) ==
    IF \E i \in 1..Len(LowerLetters) : LowerLetters[i] = c
    THEN UpperLetters[CHOOSE i \in 1..Len(LowerLetters) : LowerLetters[i] = c]
    ELSE c

\* str.upper() (tpl.py:20, 33).
Upper(s) == [i \in 1..Len(s) |-> UpperChar(s[i])]

\* str.replace(c, ''): every occurrence of the character c is removed (tpl.py:20, 33).
Remove(s, c) == SelectSeq(s, LAMBDA x : x # c)

\* str.startswith (tpl.py:21).
StartsWith(k, p) == Len(p) <= Len(k) /\ SubSeq(k, 1, Len(p)) = p

\* A canonicalisation that forgets to remove the underscores.
CanonicalKeepUnderscore(pre, key) ==
    LET k == Remove(Upper(key), "-")
    IN  IF StartsWith(k, pre) THEN SubSeq(k, Len(pre) + 1, Len(k)) ELSE k

\* PrefixLookupDict._canonical (tpl.py:19-24), for a dict whose _prefix is pre.
Canonical(pre, key) ==
    LET k == Remove(Remove(Upper(key), "-"), "_")
    IN  IF StartsWith(k, pre) THEN SubSeq(k, Len(pre) + 1, Len(k)) ELSE k

\* The value of PrefixLookupDict._prefix after set_prefix(p) (tpl.py:32-33).
NormalPrefix(p) == Remove(Remove(Upper(p), "-"), "_")

\* The outcome of a lookup that raises KeyError.
KeyError == <<"KeyError">>

\* PrefixLookupDict.__getitem__ (tpl.py:42-43) on the dict d with prefix pre.
GetItem(d, pre, key) ==
    IF Canonical(pre, key) \in DOMAIN d THEN d[Canonical(pre, key)] ELSE KeyError

\* PrefixLookupDict.__contains__ (tpl.py:48-49).
Contains(d, pre, key) == Canonical(pre, key) \in DOMAIN d

\* PrefixLookupDict.__setitem__ (tpl.py:45-46): the last write of a canonical key wins.
PutItem(d, pre, key, value) ==
    [c \in DOMAIN d \cup {Canonical(pre, key)} |->
        IF c = Canonical(pre, key) THEN value ELSE d[c]]

\* PrefixLookupDict.remove (tpl.py:26-30) over __delitem__ (tpl.py:39-40): a
\* missing key is ignored.
RemoveItem(d, pre, key) ==
    [c \in DOMAIN d \ {Canonical(pre, key)} |-> d[c]]

\* The empty dict.
EmptyDict == [c \in {} |-> <<>>]

(***************************************************************************)
(* A PrefixLookupDict under use: its prefix is set, names are stored, and  *)
(* a key is looked up under two spellings.                                 *)
(***************************************************************************)

\* The prefixes given to set_prefix.
Prefixes == {<<"t">>, <<"t", "-">>, <<"T", "_", "f">>}

\* The names stored in the dict.
StoredNames == {<<"f">>, <<"t", "-", "f">>}

\* PrefixLookupDict.__init__ (tpl.py:9-11): an empty dict with the empty prefix.
CanonInit ==
    /\ prefix = <<>>
    /\ store = EmptyDict
    /\ key1 = <<>>
    /\ key2 = <<>>

\* PrefixLookupDict.set_prefix (tpl.py:32-33).
SetPrefix ==
    \E p \in Prefixes :
        /\ prefix' = NormalPrefix(p)
        /\ UNCHANGED <<store, key1, key2>>

\* PrefixLookupDict.__setitem__ (tpl.py:45-46) of a name, as register_plugin
\* does (tpl.py:71).
SetItem ==
    \E n \in StoredNames :
        /\ store' = PutItem(store, prefix, n, n)
        /\ UNCHANGED <<prefix, key1, key2>>

\* PrefixLookupDict.remove (tpl.py:26-30).
DelItem ==
    \E n \in StoredNames :
        /\ Contains(store, prefix, n)
        /\ store' = RemoveItem(store, prefix, n)
        /\ UNCHANGED <<prefix, key1, key2>>

\* The caller extends the key it looks up by one character.
TypeKey ==
    \E c \in KeyChars :
        /\ Len(key1) < MaxKeyLen
        /\ key1' = Append(key1, c)
        /\ key2' = Append(key1, c)
        /\ UNCHANGED <<prefix, store>>

\* The same letter in the other case.
OtherCase(c) ==
    CASE c = "t" -> "T"
      [] c = "T" -> "t"
      [] OTHER -> c

\* The caller spells the key with one letter in the other case.
RespellCase ==
    \E i \in 1..Len(key2) :
        /\ OtherCase(key2[i]) # key2[i]
        /\ key2' = [key2 EXCEPT ![i] = OtherCase(key2[i])]
        /\ UNCHANGED <<prefix, store, key1>>

\* The caller spells the key with one more '-' or '_'.
RespellInsert ==
    \E i \in 0..Len(key2), c \in {"-", "_"} :
        /\ Len(key2) < MaxKeyLen
        /\ key2' = SubSeq(key2, 1, i) \o <<c>> \o SubSeq(key2, i + 1, Len(key2))
        /\ UNCHANGED <<prefix, store, key1>>

\* The caller spells the key with one '-' or '_' less.
RespellDelete ==
    \E i \in 1..Len(key2) :
        /\ key2[i] \in {"-", "_"}
        /\ key2' = SubSeq(key2, 1, i - 1) \o SubSeq(key2, i + 1, Len(key2))
        /\ UNCHANGED <<prefix, store, key1>>

(***************************************************************************)
(* TplNode: the plugin registry, discovery and construction (tpl.py:51-153).*)
(***************************************************************************)

\* The names the code and the markup use.
s_self == <<"s", "e", "l", "f">>
s_tpl_element == <<"t", "p", "l", "_", "e", "l", "e", "m", "e", "n", "t">>
s_name == <<"n", "a", "m", "e">>
s_src == <<"s", "r", "c">>
s_tpl_src == <<"t", "p", "l", "_", "s", "r", "c">>
s_cond == <<"c", "o", "n", "d">>
s_Template == <<"T", "e", "m", "p", "l", "a", "t", "e">>
s_Include == <<"I", "n", "c", "l", "u", "d", "e">>
s_If == <<"I", "f">>
s_For == <<"F", "o", "r">>
s_text == <<"#", "t", "e", "x", "t">>
s_DIV == <<"D", "I", "V">>
s_FOR == <<"F", "O", "R">>
s_for == <<"f", "o", "r">>
s_if == <<"i", "f">>
s_tpl_if == <<"t", "p", "l", "-", "i", "f">>
s_tpl_name == <<"t", "p", "l", "-", "n", "a", "m", "e">>
s_template == <<"t", "e", "m", "p", "l", "a", "t", "e">>
s_include == <<"i", "n", "c", "l", "u", "d", "e">>
s_tpl_prefix == <<"t", "p", "l", "-">>

\* The plugin classes given to register_plugin: what tpl.py:62-67 reads of a
\* class. NAME is empty when the class has none; params are the parameters and
\* locals the other local variables of __init__ (co_varnames holds both).
\* TemplatePlugin and Include are tags/template.py:57-61 and 107-108; If and
\* For stand for the plugins of the other tag modules.
ClassDef(c) ==
    CASE c = "TemplatePlugin" ->
            [NAME |-> s_Template, name__ |-> s_Template, has_PRIORITY |-> TRUE, PRIORITY |-> 200,
             params |-> <<s_self, s_tpl_element, s_name, s_src>>, locals |-> <<s_tpl_src>>]
      [] c = "Include" ->
            [NAME |-> <<>>, name__ |-> s_Include, has_PRIORITY |-> FALSE, PRIORITY |-> 0,
             params |-> <<s_self, s_tpl_element, s_name>>, locals |-> <<>>]
      [] c = "If" ->
            [NAME |-> <<>>, name__ |-> s_If, has_PRIORITY |-> TRUE, PRIORITY |-> 10,
             params |-> <<s_self, s_tpl_element, s_cond, s_name>>, locals |-> <<>>]
      [] c = "For" ->
            [NAME |-> <<>>, name__ |-> s_For, has_PRIORITY |-> TRUE, PRIORITY |-> 20,
             params |-> <<s_self, s_tpl_element, s_cond, s_name>>, locals |-> <<>>]

\* PrefixLookupDict.__init__ with a list (tpl.py:12-14): self[item] = item, in order.
RECURSIVE DictFromList(_)
DictFromList(items) ==
    IF items = <<>> THEN EmptyDict
    ELSE PutItem(DictFromList(SubSeq(items, 1, Len(items) - 1)), <<>>,
                 items[Len(items)], items[Len(items)])

\* PrefixLookupDict.__init__ with a dict (tpl.py:15-17): self[k] = v for its items.
DictFromDict(d) ==
    [c \in {Canonical(<<>>, k) : k \in DOMAIN d} |->
        d[CHOOSE k \in DOMAIN d : Canonical(<<>>, k) = c]]

\* The meta of TplNode.register_plugin (tpl.py:62-70).
MetaOf(c) ==
    LET cd == ClassDef(c)
        plugin_name == IF cd.NAME # <<>> THEN cd.NAME ELSE cd.name__
        args == DictFromList(cd.params \o cd.locals)
    IN  [class |-> c,
         args |-> RemoveItem(RemoveItem(args, <<>>, s_self), <<>>, s_tpl_element),
         name |-> plugin_name,
         priority |-> IF cd.has_PRIORITY THEN cd.PRIORITY ELSE 0]

\* The metas of the classes, computed once.
MetaTable == [c \in {"TemplatePlugin", "Include", "If", "For"} |-> MetaOf(c)]

PluginMeta(c) == MetaTable[c]

\* TplNode.register_plugin (tpl.py:60-71) on the registry reg = [prefix, d].
RegisterInto(reg, c) ==
    [reg EXCEPT !.d = PutItem(reg.d, reg.prefix, PluginMeta(c).name, PluginMeta(c))]

\* element.removeAttribute(name) (tpl.py:83, 111).
RemoveAttribute(attrs, n) == SelectSeq(attrs, LAMBDA a : a.name # n)

\* The first loop of discovery (tpl.py:107-111). The loop removes attributes
\* from the collection it iterates: over a live collection (a DOM NamedNodeMap,
\* a list) the removal shifts the attributes left and the next one is skipped;
\* over a copy every attribute is visited.
RECURSIVE FindPlugins(_, _, _, _, _, _)
FindPlugins(reg, live, snap, attrs, i, metas) ==
    LET it == IF live THEN attrs ELSE snap
    IN  IF i > Len(it) THEN [attributes |-> attrs, metas |-> metas]
        ELSE IF Contains(reg.d, reg.prefix, it[i].name)
             THEN FindPlugins(reg, live, snap, RemoveAttribute(attrs, it[i].name), i + 1,
                              Append(metas, [arg |-> it[i].value,
                                             p |-> GetItem(reg.d, reg.prefix, it[i].name)]))
             ELSE FindPlugins(reg, live, snap, attrs, i + 1, metas)

\* A sort that puts a pair before the pairs of equal priority.
RECURSIVE SortUnstable(_)
SortUnstable(ms) ==
    IF ms = <<>> THEN <<>>
    ELSE LET rest == SortUnstable(SubSeq(ms, 1, Len(ms) - 1))
             x == ms[Len(ms)]
         IN  SelectSeq(rest, LAMBDA y : y.p.priority < x.p.priority)
               \o <<x>> \o SelectSeq(rest, LAMBDA y : y.p.priority >= x.p.priority)

\* list.sort(key = priority) (tpl.py:114): ascending and stable.
RECURSIVE SortByPriority(_)
SortByPriority(ms) ==
    IF ms = <<>> THEN <<>>
    ELSE LET rest == SortByPriority(SubSeq(ms, 1, Len(ms) - 1))
             x == ms[Len(ms)]
         IN  SelectSeq(rest, LAMBDA y : y.p.priority <= x.p.priority)
               \o <<x>> \o SelectSeq(rest, LAMBDA y : y.p.priority > x.p.priority)

\* dict[key] = value of a plain dict (tpl.py:82).
DictPut(d, k, v) == [x \in DOMAIN d \cup {k} |-> IF x = k THEN v ELSE d[x]]

\* The loop of _build_kwargs (tpl.py:80-83), over a live collection or a copy.
RECURSIVE KwargsLoop(_, _, _, _, _, _)
KwargsLoop(ld, live, snap, attrs, i, kwargs) ==
    LET it == IF live THEN attrs ELSE snap
    IN  IF i > Len(it) THEN [attributes |-> attrs, kwargs |-> kwargs]
        ELSE IF Contains(ld, <<>>, it[i].name)
             THEN KwargsLoop(ld, live, snap, RemoveAttribute(attrs, it[i].name), i + 1,
                             DictPut(kwargs, GetItem(ld, <<>>, it[i].name), it[i].value))
             ELSE KwargsLoop(ld, live, snap, attrs, i + 1, kwargs)

\* A _build_kwargs that leaves the matched attributes on the element.
BuildKwargsKeep(live, attrs, plugin) ==
    [attributes |-> attrs,
     kwargs |-> KwargsLoop(DictFromDict(plugin.args), live, attrs, attrs, 1, EmptyDict).kwargs]

\* TplNode._build_kwargs (tpl.py:76-84): the kwargs and the attributes left.
BuildKwargs(live, attrs, plugin) ==
    KwargsLoop(DictFromDict(plugin.args), live, attrs, attrs, 1, EmptyDict)

\* The second loop of discovery (tpl.py:115-117).
RECURSIVE BuildPlugins(_, _, _, _, _)
BuildPlugins(live, attrs, metas, i, plugins) ==
    IF i > Len(metas) THEN [attributes |-> attrs, plugins |-> plugins]
    ELSE LET b == BuildKwargs(live, attrs, metas[i].p)
         IN  BuildPlugins(live, b.attributes, metas, i + 1,
                          Append(plugins, [meta |-> metas[i].p,
                                           args |-> <<metas[i].arg>>,
                                           kwargs |-> b.kwargs]))

\* The value of a local variable that is not bound.
NoMeta == [class |-> "", args |-> EmptyDict, name |-> <<>>, priority |-> 0]

\* The end of the first pass (tpl.py:118-123), after the two loops: a tag name
\* that is a registered plugin makes list.append raise TypeError (three
\* arguments, tpl.py:121) after its arguments were evaluated, so _plugins is
\* not set. Otherwise the list is cached on the element.
DiscoveryTag(reg, live, e, sorted, built) ==
    [elem |-> IF Contains(reg.d, reg.prefix, e.nodeName)
              THEN [e EXCEPT !.attributes =
                        BuildKwargs(live, built.attributes,
                                    GetItem(reg.d, reg.prefix, e.nodeName)).attributes]
              ELSE [e EXCEPT !.attributes = built.attributes,
                             !.has_plugins = TRUE,
                             !.plugins = built.plugins],
     p_bound |-> sorted # <<>>,
     p |-> IF sorted # <<>> THEN sorted[Len(sorted)].p ELSE NoMeta,
     err |-> IF Contains(reg.d, reg.prefix, e.nodeName) THEN "TypeError" ELSE ""]

\* The second loop of the first pass (tpl.py:115-117) and what follows it.
DiscoveryBuild(reg, live, e, attrs, sorted) ==
    DiscoveryTag(reg, live, e, sorted, BuildPlugins(live, attrs, sorted, 1, <<>>))

\* The sort of the first pass (tpl.py:114) and what follows it.
DiscoverySort(reg, live, e, found) ==
    DiscoveryBuild(reg, live, e, found.attributes, SortByPriority(found.metas))

\* The first pass over an element (tpl.py:107-123): the element afterwards, the
\* local variable p, and the exception raised, if any.
Discovery(reg, live, e) ==
    DiscoverySort(reg, live, e, FindPlugins(reg, live, e.attributes, e.attributes, 1, <<>>))

\* An attribute of an object that has not been assigned yet.
Unset == -1

\* A new plugin object of class cls on element eid. listeners are the TplNodes
\* bound to its 'change' event; the other fields are the attributes the
\* classes of tags/template.py assign.
NewObj(cls, eid, args, kwargs) ==
    [cls |-> cls, elem |-> eid, args |-> args, kwargs |-> kwargs, listeners |-> <<>>,
     fetching |-> FALSE, body |-> "inline",
     name |-> Unset, template |-> Unset, tpl_instance |-> Unset,
     ctx |-> None, shown |-> None]

\* A plugin object is constructed and appended to the heap; ret is the object.
AddObj(w, obj) ==
    [w EXCEPT !.objs = Append(@, obj), !.ret = Len(w.objs) + 1]

\* A construction that leaves the node unsubscribed on the fall-through path
\* of text nodes and generic tags (tpl.py:141).
FinishFallThroughUnbound(w, h) ==
    IF w.err # "" THEN w
    ELSE IF w.objs[w.ret].cls = "TemplatePlugin" THEN [w EXCEPT !.err = "TypeError"]
    ELSE [w EXCEPT !.nodes = [x \in DOMAIN w.nodes \cup {h} |->
                                 IF x = h THEN [plugin |-> w.ret] ELSE w.nodes[x]],
                   !.objs[w.ret].listeners =
                       IF w.objs[w.ret].cls \in {"TextPlugin", "GenericTagPlugin"}
                       THEN @ ELSE Append(@, h),
                   !.ret = h]

\* A TplNode h that is constructed: self.plugin is assigned the object in ret
\* and the node is bound to the plugin's 'change' event (tpl.py:95-96, 131-132,
\* 137, 141). A constructor that raised leaves no node. The bind of a
\* TemplatePlugin is TemplatePlugin.bind(self, ctx) (tags/template.py:69-71),
\* which the call bind('change', self, 'change') gives two arguments too
\* many: TypeError.
Finish(w, h) ==
    IF w.err # "" THEN w
    ELSE IF w.objs[w.ret].cls = "TemplatePlugin" THEN [w EXCEPT !.err = "TypeError"]
    ELSE [w EXCEPT !.nodes = [x \in DOMAIN w.nodes \cup {h} |->
                                 IF x = h THEN [plugin |-> w.ret] ELSE w.nodes[x]],
                   !.objs[w.ret].listeners = Append(@, h),
                   !.ret = h]

\* A constructor that reads the counter and does not advance it.
TakeHashKeep(w) == w

\* self._hash = TplNode._HASH_SEQ; TplNode._HASH_SEQ += 1 (tpl.py:89-90).
TakeHash(w) == [w EXCEPT !.hash_seq = @ + 1]

RECURSIVE TplNodeInit(_, _, _, _)
RECURSIVE Construct(_, _, _, _, _, _, _)

\* The end of TemplatePlugin.__init__ (tags/template.py:66-67): objs0 is the
\* heap before the constructor, o the plugin, w the outcome of compiling its
\* element.
TemplateCompiled(objs0, o, name, w) ==
    IF w.err # "" THEN [w EXCEPT !.objs = objs0]
    ELSE [w EXCEPT !.objs[o].template = w.ret,
                   !.objs[o].name = name,
                   !.objs[o].fetching = FALSE,
                   !.ret = o]

\* TemplatePlugin.__init__ (tags/template.py:60-67) with name and src. With a
\* src the constructor is suspended at the fetch; without one it compiles the
\* element at once.
TemplateInit(reg, live, w, eid, args, kwargs) ==
    IF s_src \in DOMAIN kwargs
    THEN AddObj(w, [NewObj("TemplatePlugin", eid, args, kwargs) EXCEPT !.fetching = TRUE])
    ELSE TemplateCompiled(w.objs, Len(w.objs) + 1,
                          IF args # <<>> THEN args[1] ELSE kwargs[s_name],
                          TplNodeInit(reg, live,
                                      AddObj(w, NewObj("TemplatePlugin", eid, args, kwargs)),
                                      eid))

\* Include.__init__ (tags/template.py:107-113), constructed from an element.
IncludeInit(w, eid, args, kwargs) ==
    AddObj(w, [NewObj("Include", eid, args, kwargs) EXCEPT
                  !.name = IF args # <<>> THEN args[1]
                           ELSE IF s_name \in DOMAIN kwargs THEN kwargs[s_name] ELSE None])

\* The parameters of cls that a call with the positional arguments args leaves
\* to the keywords.
FreeParams(cls, args) ==
    {ClassDef(cls).params[j] : j \in (3 + Len(args))..Len(ClassDef(cls).params)}

\* The call p['class'](tpl_element, *args, **kwargs) (tpl.py:130): a keyword
\* that is no parameter, or that names a parameter a positional argument
\* binds, raises TypeError.
Construct(reg, live, w, cls, eid, args, kwargs) ==
    IF \E k \in DOMAIN kwargs : k \notin FreeParams(cls, args)
    THEN [w EXCEPT !.err = "TypeError"]
    ELSE IF cls = "TemplatePlugin" THEN TemplateInit(reg, live, w, eid, args, kwargs)
    ELSE IF cls = "Include" THEN IncludeInit(w, eid, args, kwargs)
    ELSE AddObj(w, NewObj(cls, eid, args, kwargs))

\* What the first pass leaves on the heap (tpl.py:107-123): the element with
\* its attributes consumed and, unless the pass raised, its list cached. An
\* element with a cached list is left as it is (tpl.py:107).
Discovered(w, eid, disc) ==
    IF w.elems[eid].has_plugins THEN w
    ELSE [w EXCEPT !.elems[eid] = disc.elem,
                   !.discoveries[eid] = @ + 1,
                   !.discovered[eid] = IF disc.err # "" THEN @ ELSE disc.elem.plugins,
                   !.err = disc.err]

\* meta, args, kwargs = plugins.pop() (tpl.py:129).
Pop(w, eid) ==
    [w EXCEPT !.elems[eid].plugins = SubSeq(@, 1, Len(@) - 1)]

\* A construction that gives every element without plugins the generic plugin.
BuildPluginGeneric(reg, live, w, eid, h, p_bound, p) ==
    IF w.err # "" THEN w
    ELSE IF Len(w.elems[eid].plugins) > 0
    THEN IF ~p_bound THEN [Pop(w, eid) EXCEPT !.err = "UnboundLocalError"]
         ELSE Finish(Construct(reg, live, Pop(w, eid), p.class, eid,
                               w.elems[eid].plugins[Len(w.elems[eid].plugins)].args,
                               w.elems[eid].plugins[Len(w.elems[eid].plugins)].kwargs), h)
    ELSE Finish(AddObj(w, NewObj("GenericTagPlugin", eid, <<>>, EmptyDict)), h)

\* The construction of the plugin of node h (tpl.py:125-141) on the heap w the
\* first pass left; p_bound and p are the local variable p of the first pass.
BuildPlugin(reg, live, w, eid, h, p_bound, p) ==
    IF w.err # "" THEN w
    ELSE IF Len(w.elems[eid].plugins) > 0
    THEN IF ~p_bound THEN [Pop(w, eid) EXCEPT !.err = "UnboundLocalError"]
         ELSE Finish(Construct(reg, live, Pop(w, eid), p.class, eid,
                               w.elems[eid].plugins[Len(w.elems[eid].plugins)].args,
                               w.elems[eid].plugins[Len(w.elems[eid].plugins)].kwargs), h)
    ELSE IF Len(w.elems[eid].attributes) > 0
    THEN Finish(AddObj(w, NewObj("InterpolatedAttrsPlugin", eid, <<>>, EmptyDict)), h)
    ELSE Finish(AddObj(w, NewObj("GenericTagPlugin", eid, <<>>, EmptyDict)), h)

\* The first pass and the construction that follows it (tpl.py:107-141).
DiscoverAndBuild(reg, live, w, eid, h, disc) ==
    BuildPlugin(reg, live, Discovered(w, eid, disc), eid, h, disc.p_bound, disc.p)

\* TplNode.__init__ from a markup element (tpl.py:86-91, 98-141).
TplNodeInit(reg, live, w, eid) ==
    IF w.elems[eid].nodeName = s_text
    THEN Finish(AddObj(TakeHash(w), NewObj("TextPlugin", eid, <<>>, EmptyDict)), w.hash_seq)
    ELSE DiscoverAndBuild(reg, live, TakeHash(w), eid, w.hash_seq,
                          IF w.elems[eid].has_plugins
                          THEN [elem |-> w.elems[eid], p_bound |-> FALSE, p |-> NoMeta, err |-> ""]
                          ELSE Discovery(reg, live, w.elems[eid]))

\* TagPlugin.clone: a new plugin of the same class, configured as the plugin
\* cloned (Include.__init__ takes its name from the Include it is given,
\* tags/template.py:110-111), unbound and with no listeners.
TagPluginClone(w, o) ==
    AddObj(w, [w.objs[o] EXCEPT !.listeners = <<>>, !.tpl_instance = Unset,
                                !.ctx = None, !.shown = None])

\* plugin.clone() of the plugin object o (tpl.py:94): TemplatePlugin.clone
\* returns the plugin itself (tags/template.py:78-80).
PluginClone(w, o) ==
    IF w.objs[o].cls = "TemplatePlugin" THEN [w EXCEPT !.ret = o]
    ELSE TagPluginClone(w, o)

\* A clone that takes the plugin of its source for its own.
TplNodeCloneShared(w, src) ==
    Finish([TakeHash(w) EXCEPT !.ret = w.nodes[src].plugin], w.hash_seq)

\* TplNode.__init__ from a TplNode (tpl.py:86-96), which TplNode.clone calls
\* (tpl.py:143-144).
TplNodeClone(w, src) ==
    Finish(PluginClone(TakeHash(w), w.nodes[src].plugin), w.hash_seq)

(***************************************************************************)
(* Compilation: elements are compiled into TplNodes and TplNodes cloned,   *)
(* while plugins are registered.                                           *)
(***************************************************************************)

\* The state of the heap as a record, and the record written back.
World ==
    [elems |-> elems, hash_seq |-> hash_seq, nodes |-> nodes, objs |-> objs,
     err |-> "", discoveries |-> discoveries, discovered |-> discovered, ret |-> None,
     cache |-> TEMPLATE_CACHE, bind_errors |-> bind_errors]

Commit(w) ==
    /\ elems' = w.elems
    /\ hash_seq' = w.hash_seq
    /\ nodes' = w.nodes
    /\ objs' = w.objs
    /\ err' = w.err
    /\ discoveries' = w.discoveries
    /\ discovered' = w.discovered

\* The attribute names of the markup.
AttrNames == {s_if, s_tpl_if, s_for, s_name, s_tpl_name}

\* The attribute lists: distinct names, each attribute's value its position.
AttrLists ==
    UNION {{[i \in 1..m |-> [name |-> f[i], value |-> i]] :
                f \in {g \in [1..m -> AttrNames] : \A i, j \in 1..m : i # j => g[i] # g[j]}} :
           m \in 0..MaxAttrs}

\* A markup element that has not been compiled.
Element(nn, as) == [nodeName |-> nn, attributes |-> as, has_plugins |-> FALSE, plugins |-> <<>>]

\* The plugin classes registered.
PluginClasses == {"If", "For"}

\* The module is loaded (tpl.py:52-53) and one markup element is given.
CompileInit ==
    /\ PLUGINS = [prefix |-> <<>>, d |-> EmptyDict]
    /\ live_attrs \in BOOLEAN
    /\ elems \in {<<Element(s_text, <<>>)>>}
                   \cup {<<Element(nn, as)>> : nn \in {s_DIV, s_FOR}, as \in AttrLists}
    /\ hash_seq = 0
    /\ nodes = EmptyDict
    /\ objs = <<>>
    /\ err = ""
    /\ discoveries = <<0>>
    /\ discovered = <<<<>>>>

\* TplNode.set_prefix (tpl.py:55-58).
SetPluginPrefix ==
    /\ PLUGINS' = [PLUGINS EXCEPT !.prefix = NormalPrefix(s_tpl_prefix)]
    /\ UNCHANGED <<live_attrs, elems, hash_seq, nodes, objs, err, discoveries, discovered>>

\* TplNode.register_plugin (tpl.py:60-71).
RegisterPlugin ==
    \E c \in PluginClasses :
        /\ PLUGINS' = RegisterInto(PLUGINS, c)
        /\ UNCHANGED <<live_attrs, elems, hash_seq, nodes, objs, err, discoveries, discovered>>

\* TplNode(tpl_element) (tpl.py:86-141).
NewTplNode ==
    \E eid \in 1..Len(elems) :
        /\ hash_seq < MaxNodes
        /\ LET w == TplNodeInit(PLUGINS, live_attrs, World, eid) IN Commit(w)
        /\ call' = [op |-> "TplNode", target |-> eid, arg |-> None]
        /\ UNCHANGED <<PLUGINS, live_attrs, TEMPLATE_CACHE, ctx_data, bind_errors>>

\* TplNode.clone (tpl.py:143-144).
CloneTplNode ==
    \E h \in DOMAIN nodes :
        /\ hash_seq < MaxNodes
        /\ LET w == TplNodeClone(World, h) IN Commit(w)
        /\ call' = [op |-> "clone", target |-> h, arg |-> None]
        /\ UNCHANGED <<PLUGINS, live_attrs, TEMPLATE_CACHE, ctx_data, bind_errors>>

(***************************************************************************)
(* Named templates: TemplatePlugin and Include (tags/template.py).         *)
(***************************************************************************)

\* The contexts in use.
Ctxs == {1, 2}

\* The template names in use.
TemplateNames == {1, 2}

\* The src given to a TemplatePlugin that fetches its body.
Url == 7

\* An attribute no plugin takes (tags/template.py:25).
s_class == <<"c", "l", "a", "s", "s">>

\* No operation has been invoked.
NoCall == [op |-> "", target |-> None, arg |-> None]

\* No context is in use.
TagsIdle ==
    /\ TEMPLATE_CACHE = [c \in Ctxs |-> EmptyDict]
    /\ ctx_data = [c \in Ctxs |-> 0]
    /\ call = NoCall
    /\ bind_errors = {}

\* TagPlugin.bind_ctx: the plugin keeps the context; a plugin that renders
\* its own element renders it from the context's data.
TagPluginBindCtx(w, o, c, data) ==
    IF w.objs[o].cls = "Include" THEN [w EXCEPT !.objs[o].ctx = c]
    ELSE [w EXCEPT !.objs[o].ctx = c, !.objs[o].shown = data[c]]

\* TagPlugin.update: a bound plugin renders its element again.
TagPluginUpdate(w, o, data) ==
    IF w.objs[o].ctx = None THEN w
    ELSE [w EXCEPT !.objs[o].shown = data[w.objs[o].ctx]]

\* A bind that stores the definition in the cache of every context.
TemplateBindGlobal(w, o, c) ==
    IF w.objs[o].name = Unset THEN [w EXCEPT !.err = "AttributeError"]
    ELSE [w EXCEPT !.cache = [x \in Ctxs |-> DictPut(w.cache[x], w.objs[o].name, o)]]

\* TemplatePlugin.bind (tags/template.py:69-71). Before __init__ has assigned
\* _name (tags/template.py:67) the attribute is missing.
TemplateBind(w, o, c) ==
    IF w.objs[o].name = Unset THEN [w EXCEPT !.err = "AttributeError"]
    ELSE [w EXCEPT !.cache[c] = DictPut(@, w.objs[o].name, o)]

\* An instantiate that hands out the definition's compiled node itself.
InstantiateShared(w, t) ==
    [w EXCEPT !.ret = w.objs[t].template]

\* TemplatePlugin.instantiate (tags/template.py:73-76): a clone of _template.
Instantiate(w, t) ==
    TplNodeClone(w, w.objs[t].template)

\* A resumption that lets a failed fetch abort the constructor.
TemplateResumeThrow(reg, live, w, o, ok) ==
    IF ~ok THEN [w EXCEPT !.err = "HTTPError"]
    ELSE TemplateCompiled(w.objs, o, w.objs[o].args[1],
                          TplNodeInit(reg, live, [w EXCEPT !.objs[o].body = "fetched"],
                                      w.objs[o].elem))

\* TemplatePlugin.__init__ resumed when the fetch ends (tags/template.py:64-67).
\* HTTPRequest is given throw_on_error=False: a failed fetch yields no content
\* and the constructor goes on.
TemplateResume(reg, live, w, o, ok) ==
    TemplateCompiled(w.objs, o, w.objs[o].args[1],
                     TplNodeInit(reg, live,
                                 [w EXCEPT !.objs[o].body = IF ok THEN "fetched" ELSE "empty"],
                                 w.objs[o].elem))

RECURSIVE PluginBindCtx(_, _, _, _)

\* The end of Include.bind_ctx (tags/template.py:118-119): the instance in ret
\* is kept and bound to the context.
IncludeBindInstance(w, o, c, data) ==
    IF w.err # "" THEN w
    ELSE PluginBindCtx([w EXCEPT !.objs[o].tpl_instance = w.ret],
                       w.nodes[w.ret].plugin, c, data)

\* A bind_ctx that leaves an unknown name to be found out later.
IncludeBindCtxLazy(w, o, c, data) ==
    IF w.objs[o].name \notin DOMAIN w.cache[c]
    THEN TagPluginBindCtx(w, o, c, data)
    ELSE IncludeBindInstance(Instantiate(TagPluginBindCtx(w, o, c, data),
                                         w.cache[c][w.objs[o].name]), o, c, data)

\* Include.bind_ctx (tags/template.py:115-119): TEMPLATE_CACHE[self._name]
\* raises KeyError for a name that is not in the cache.
IncludeBindCtx(w, o, c, data) ==
    IF w.objs[o].name \notin DOMAIN w.cache[c]
    THEN [TagPluginBindCtx(w, o, c, data) EXCEPT !.err = "KeyError",
                                                 !.bind_errors = @ \cup {o}]
    ELSE IncludeBindInstance(Instantiate(TagPluginBindCtx(w, o, c, data),
                                         w.cache[c][w.objs[o].name]), o, c, data)

\* plugin.bind_ctx(ctx), as TplNode.bind_ctx calls it (tpl.py:146-147).
PluginBindCtx(w, o, c, data) ==
    IF w.objs[o].cls = "Include" THEN IncludeBindCtx(w, o, c, data)
    ELSE TagPluginBindCtx(w, o, c, data)

RECURSIVE PluginUpdate(_, _, _)

\* Include.update (tags/template.py:121-123): _tpl_instance is missing unless a
\* bind_ctx has assigned it.
IncludeUpdate(w, o, data) ==
    IF w.objs[o].tpl_instance = Unset THEN [w EXCEPT !.err = "AttributeError"]
    ELSE PluginUpdate(w, w.nodes[w.objs[o].tpl_instance].plugin, data)

\* plugin.update(), as TplNode.update calls it (tpl.py:149-150);
\* TemplatePlugin.update does nothing (tags/template.py:82-83).
PluginUpdate(w, o, data) ==
    IF w.objs[o].cls = "TemplatePlugin" THEN w
    ELSE IF w.objs[o].cls = "Include" THEN IncludeUpdate(w, o, data)
    ELSE TagPluginUpdate(w, o, data)

\* The heap and the caches are written back.
CommitTags(w) ==
    /\ Commit(w)
    /\ TEMPLATE_CACHE' = w.cache
    /\ bind_errors' = w.bind_errors

\* The markup: the body of a template, two includes and a template definition.
TagsMarkup(n1, n2) ==
    <<Element(s_DIV, <<[name |-> s_class, value |-> 1]>>),
      Element(s_DIV, <<[name |-> s_include, value |-> n1]>>),
      Element(s_DIV, <<[name |-> s_include, value |-> n2]>>),
      Element(s_DIV, <<[name |-> s_template, value |-> 1]>>)>>

\* The tag modules are loaded (tpl.py:230): TemplatePlugin and Include are
\* registered, and the markup is given.
TagsInit ==
    /\ PLUGINS = RegisterInto(RegisterInto([prefix |-> <<>>, d |-> EmptyDict],
                                           "TemplatePlugin"), "Include")
    /\ live_attrs = TRUE
    /\ elems \in {TagsMarkup(n1, n2) : n1, n2 \in TemplateNames}
    /\ hash_seq = 0
    /\ nodes = EmptyDict
    /\ objs = <<>>
    /\ err = ""
    /\ discoveries = <<0, 0, 0, 0>>
    /\ discovered = <<<<>>, <<>>, <<>>, <<>>>>
    /\ TagsIdle

\* The element that holds the body of a template; the others are the page.
IsBody(e) == \E a \in 1..Len(e.attributes) : e.attributes[a].name = s_class

\* A constructor that raised returns nothing: the TplNodes and plugin objects
\* it had made are out of the caller's reach.
Unreachable(w) ==
    IF w.err # "" THEN [w EXCEPT !.nodes = nodes, !.objs = objs] ELSE w

\* Template(page) has compiled every element of the page (tpl.py:207).
PageCompiled == \A e \in 1..Len(elems) : IsBody(elems[e]) \/ discoveries[e] > 0

\* TplNode(tpl_element) (tpl.py:86-141) on the next element of the page: the
\* page is compiled first and once, in document order.
CompileMarkup ==
    \E eid \in 1..Len(elems) :
        /\ ~IsBody(elems[eid])
        /\ discoveries[eid] = 0
        /\ \A e \in 1..(eid - 1) : IsBody(elems[e]) \/ discoveries[e] > 0
        /\ hash_seq < MaxHeapNodes
        /\ LET w == Unreachable(TplNodeInit(PLUGINS, live_attrs, World, eid))
           IN  CommitTags(w)
        /\ call' = [op |-> "TplNode", target |-> None, arg |-> None]
        /\ UNCHANGED <<PLUGINS, live_attrs, ctx_data>>

\* TemplatePlugin(tpl_element, name) and TemplatePlugin(tpl_element, name,
\* src=url) (tags/template.py:60-67) on an element that holds a body and has
\* no TemplatePlugin yet.
NewTemplatePlugin ==
    \E eid \in 1..Len(elems), n \in TemplateNames, src \in {None, Url} :
        /\ PageCompiled
        /\ IsBody(elems[eid])
        /\ hash_seq < MaxHeapNodes
        /\ \A o \in 1..Len(objs) : objs[o].cls = "TemplatePlugin" => objs[o].elem # eid
        /\ LET w == Construct(PLUGINS, live_attrs, World, "TemplatePlugin", eid, <<n>>,
                              IF src = None THEN EmptyDict ELSE (s_src :> src))
           IN  CommitTags(w)
        /\ call' = [op |-> "TemplatePlugin", target |-> None, arg |-> None]
        /\ UNCHANGED <<PLUGINS, live_attrs, ctx_data>>

\* The fetch of a suspended TemplatePlugin.__init__ ends, with the content or
\* with a failure, and the constructor goes on (tags/template.py:64-67).
FetchDone ==
    \E o \in 1..Len(objs), ok \in BOOLEAN :
        /\ objs[o].fetching
        /\ hash_seq < MaxHeapNodes
        /\ LET w == TemplateResume(PLUGINS, live_attrs, World, o, ok) IN CommitTags(w)
        /\ call' = [op |-> "fetch", target |-> o, arg |-> IF ok THEN 1 ELSE 0]
        /\ UNCHANGED <<PLUGINS, live_attrs, ctx_data>>

\* TemplatePlugin.bind(ctx) (tags/template.py:69-71) on a TemplatePlugin the
\* caller constructed.
BindTemplate ==
    \E o \in 1..Len(objs), c \in Ctxs :
        /\ objs[o].cls = "TemplatePlugin"
        /\ IsBody(elems[objs[o].elem])
        /\ LET w == TemplateBind(World, o, c) IN CommitTags(w)
        /\ call' = [op |-> "bind", target |-> o, arg |-> c]
        /\ UNCHANGED <<PLUGINS, live_attrs, ctx_data>>

\* TplNode.bind_ctx(ctx) (tpl.py:146-147) on a node of the page: a node is
\* bound once, and an include whose bind_ctx raised may be bound again.
NodeBindCtx ==
    \E h \in DOMAIN nodes, c \in Ctxs :
        /\ PageCompiled
        /\ ~IsBody(elems[objs[nodes[h].plugin].elem])
        /\ objs[nodes[h].plugin].tpl_instance = Unset
        /\ hash_seq < MaxHeapNodes
        /\ LET w == PluginBindCtx(World, nodes[h].plugin, c, ctx_data) IN CommitTags(w)
        /\ call' = [op |-> "bind_ctx", target |-> h, arg |-> c]
        /\ UNCHANGED <<PLUGINS, live_attrs, ctx_data>>

\* TplNode.update() (tpl.py:149-150) on a node of the page, as a scheduler
\* tick invokes it (tpl.py:225).
NodeUpdate ==
    \E h \in DOMAIN nodes :
        /\ PageCompiled
        /\ ~IsBody(elems[objs[nodes[h].plugin].elem])
        /\ LET w == PluginUpdate(World, nodes[h].plugin, ctx_data) IN CommitTags(w)
        /\ call' = [op |-> "update", target |-> h, arg |-> None]
        /\ UNCHANGED <<PLUGINS, live_attrs, ctx_data>>

\* The data of a context changes.
CtxChange ==
    \E c \in Ctxs :
        /\ PageCompiled
        /\ ctx_data[c] < MaxData
        /\ ctx_data' = [ctx_data EXCEPT ![c] = @ + 1]
        /\ call' = [op |-> "set", target |-> None, arg |-> None]
        /\ err' = ""
        /\ UNCHANGED <<PLUGINS, live_attrs, elems, hash_seq, nodes, objs,
                       discoveries, discovered, TEMPLATE_CACHE, bind_errors>>

\* The markup of a page with one include and of two template bodies.
CacheMarkup(n) ==
    <<Element(s_DIV, <<[name |-> s_class, value |-> 1]>>),
      Element(s_DIV, <<[name |-> s_class, value |-> 2]>>),
      Element(s_DIV, <<[name |-> s_include, value |-> n]>>)>>

\* The tag modules are loaded (tpl.py:230) and the markup is given.
CacheInit ==
    /\ PLUGINS = RegisterInto(RegisterInto([prefix |-> <<>>, d |-> EmptyDict],
                                           "TemplatePlugin"), "Include")
    /\ live_attrs = TRUE
    /\ elems \in {CacheMarkup(n) : n \in TemplateNames}
    /\ hash_seq = 0
    /\ nodes = EmptyDict
    /\ objs = <<>>
    /\ err = ""
    /\ discoveries = <<0, 0, 0>>
    /\ discovered = <<<<>>, <<>>, <<>>>>
    /\ TagsIdle

(***************************************************************************)
(* Template: the root object and its update scheduler.                     *)
(***************************************************************************)

\* Template.__init__ (tpl.py:206-209): no timer, nothing subscribed; the
\* element given is in the document (test_event.py:28), the only child so far.
SchedInit ==
    /\ tpl_elem = 1
    /\ childNodes = <<1>>
    /\ elem_seq = 2
    /\ subscribed = FALSE
    /\ update_timer = None
    /\ timers = {}
    /\ timer_seq = 1
    /\ in_update = FALSE
    /\ burst = 0
    /\ last_burst = 0
    /\ bursts = 0
    /\ updates = 0
    /\ reentrant = 0
    /\ owed = 0
    /\ reentered = FALSE

\* A _start_timer that arms a timer on every notification.
StartTimerAlways ==
    /\ update_timer' = timer_seq
    /\ timers' = timers \cup {timer_seq}
    /\ timer_seq' = timer_seq + 1

\* Template._start_timer (tpl.py:217-219).
StartTimer ==
    IF update_timer = None
    THEN /\ update_timer' = timer_seq
         /\ timers' = timers \cup {timer_seq}
         /\ timer_seq' = timer_seq + 1
    ELSE UNCHANGED <<update_timer, timers, timer_seq>>

\* parent.replaceChild(new, old): new stands where old stood.
ReplaceChild(children, new, old) ==
    [i \in DOMAIN children |-> IF children[i] = old THEN new ELSE children[i]]

\* The page adds an element to the parent, before or after its children.
DocumentInsert ==
    /\ Len(childNodes) < MaxChildren
    /\ \E front \in BOOLEAN :
          childNodes' = IF front THEN <<elem_seq>> \o childNodes
                        ELSE Append(childNodes, elem_seq)
    /\ elem_seq' = elem_seq + 1
    /\ UNCHANGED <<tpl_elem, subscribed, update_timer, timers, timer_seq, in_update,
                   burst, last_burst, bursts, updates, reentrant, owed, reentered>>

\* A bind_ctx that keeps the bound element to itself.
BindCtxDetached ==
    /\ ~subscribed
    /\ tpl_elem' = elem_seq
    /\ elem_seq' = elem_seq + 1
    /\ subscribed' = TRUE
    /\ UNCHANGED <<childNodes, update_timer, timers, timer_seq, in_update,
                   burst, last_burst, bursts, updates, reentrant, owed, reentered>>

\* Template.bind_ctx (tpl.py:211-215): the root's bind_ctx returns the bound
\* element, an element the plugin has created; it takes the place of
\* Template.elem in the parent and becomes Template.elem; _start_timer is
\* subscribed to the root's 'change'.
BindCtx ==
    /\ ~subscribed
    /\ childNodes' = ReplaceChild(childNodes, elem_seq, tpl_elem)
    /\ tpl_elem' = elem_seq
    /\ elem_seq' = elem_seq + 1
    /\ subscribed' = TRUE
    /\ UNCHANGED <<update_timer, timers, timer_seq, in_update,
                   burst, last_burst, bursts, updates, reentrant, owed, reentered>>

\* The root TplNode emits 'change' while no update() is executing.
Change ==
    /\ subscribed
    /\ ~in_update
    /\ burst < MaxBurstLen
    /\ burst = 0 => bursts < MaxBursts
    /\ StartTimer
    /\ burst' = burst + 1
    /\ bursts' = IF burst = 0 THEN bursts + 1 ELSE bursts
    /\ UNCHANGED <<subscribed, in_update, last_burst, updates, reentrant, owed, reentered>>
    /\ UNCHANGED domVars

\* A plugin emits 'change' during root.update() (tpl.py:225): the handler runs
\* synchronously, inside update().
ChangeDuringUpdate ==
    /\ subscribed
    /\ in_update
    /\ reentrant < MaxReentrant
    /\ StartTimer
    /\ reentrant' = reentrant + 1
    /\ owed' = owed + 1
    /\ reentered' = TRUE
    /\ UNCHANGED <<subscribed, in_update, burst, last_burst, bursts, updates>>
    /\ UNCHANGED domVars

\* A live interval timer fires and invokes Template.update (tpl.py:219, 221-225).
\* The event loop is single-threaded: no tick fires while update() executes.
Tick ==
    /\ ~in_update
    /\ updates < MaxUpdates
    /\ \E t \in timers : TRUE
    /\ in_update' = TRUE
    /\ updates' = updates + 1
    /\ last_burst' = burst
    /\ burst' = 0
    /\ reentrant' = 0
    /\ owed' = 0
    /\ UNCHANGED <<subscribed, update_timer, timers, timer_seq, bursts, reentered>>
    /\ UNCHANGED domVars

\* An update() that returns without clearing the timer.
UpdateReturnNoClear ==
    /\ in_update
    /\ in_update' = FALSE
    /\ UNCHANGED <<subscribed, update_timer, timers, timer_seq,
                   burst, last_burst, bursts, updates, reentrant, owed, reentered>>
    /\ UNCHANGED domVars

\* The end of Template.update (tpl.py:226-228): the timer is cleared.
UpdateReturn ==
    /\ in_update
    /\ timers' = IF update_timer # None THEN timers \ {update_timer} ELSE timers
    /\ update_timer' = None
    /\ in_update' = FALSE
    /\ UNCHANGED <<subscribed, timer_seq,
                   burst, last_burst, bursts, updates, reentrant, owed, reentered>>
    /\ UNCHANGED domVars

(***************************************************************************)
(* The specifications: every part starts from its constructor's state, and *)
(* each specification runs the operations of one part.                     *)
(***************************************************************************)

\* No markup is given.
TplIdle ==
    /\ PLUGINS = [prefix |-> <<>>, d |-> EmptyDict]
    /\ live_attrs = TRUE
    /\ elems = <<>>
    /\ hash_seq = 0
    /\ nodes = EmptyDict
    /\ objs = <<>>
    /\ err = ""
    /\ discoveries = <<>>
    /\ discovered = <<>>

Init == CanonInit /\ SchedInit /\ TplIdle /\ TagsIdle

SchedNext ==
    \/ DocumentInsert /\ UNCHANGED <<canonVars, tplVars, tagsVars>>
    \/ BindCtx /\ UNCHANGED <<canonVars, tplVars, tagsVars>>
    \/ Change /\ UNCHANGED <<canonVars, tplVars, tagsVars>>
    \/ ChangeDuringUpdate /\ UNCHANGED <<canonVars, tplVars, tagsVars>>
    \/ Tick /\ UNCHANGED <<canonVars, tplVars, tagsVars>>
    \/ UpdateReturn /\ UNCHANGED <<canonVars, tplVars, tagsVars>>

SchedSpec == Init /\ [][SchedNext]_vars

CanonNext ==
    \/ SetPrefix /\ UNCHANGED <<schedVars, tplVars, tagsVars>>
    \/ SetItem /\ UNCHANGED <<schedVars, tplVars, tagsVars>>
    \/ DelItem /\ UNCHANGED <<schedVars, tplVars, tagsVars>>
    \/ TypeKey /\ UNCHANGED <<schedVars, tplVars, tagsVars>>
    \/ RespellCase /\ UNCHANGED <<schedVars, tplVars, tagsVars>>
    \/ RespellInsert /\ UNCHANGED <<schedVars, tplVars, tagsVars>>
    \/ RespellDelete /\ UNCHANGED <<schedVars, tplVars, tagsVars>>

CanonSpec == Init /\ [][CanonNext]_vars

CompileNext ==
    \/ SetPluginPrefix /\ UNCHANGED <<canonVars, schedVars, tagsVars>>
    \/ RegisterPlugin /\ UNCHANGED <<canonVars, schedVars, tagsVars>>
    \/ NewTplNode /\ UNCHANGED <<canonVars, schedVars>>
    \/ CloneTplNode /\ UNCHANGED <<canonVars, schedVars>>

\* The other parts are idle while markup is compiled.
CompileStart == CanonInit /\ SchedInit /\ CompileInit /\ TagsIdle

CompileSpec == CompileStart /\ [][CompileNext]_vars

\* The other parts are idle while templates are defined and included.
TagsStart == CanonInit /\ SchedInit /\ TagsInit

TagsNext ==
    \/ CompileMarkup /\ UNCHANGED <<canonVars, schedVars>>
    \/ NewTemplatePlugin /\ UNCHANGED <<canonVars, schedVars>>
    \/ FetchDone /\ UNCHANGED <<canonVars, schedVars>>
    \/ BindTemplate /\ UNCHANGED <<canonVars, schedVars>>
    \/ NodeBindCtx /\ UNCHANGED <<canonVars, schedVars>>
    \/ NodeUpdate /\ UNCHANGED <<canonVars, schedVars>>
    \/ CtxChange /\ UNCHANGED <<canonVars, schedVars>>

TagsSpec == TagsStart /\ [][TagsNext]_vars

\* The other parts are idle while definitions are bound and looked up.
CacheStart == CanonInit /\ SchedInit /\ CacheInit

CacheNext ==
    \/ CompileMarkup /\ UNCHANGED <<canonVars, schedVars>>
    \/ NewTemplatePlugin /\ UNCHANGED <<canonVars, schedVars>>
    \/ FetchDone /\ UNCHANGED <<canonVars, schedVars>>
    \/ BindTemplate /\ UNCHANGED <<canonVars, schedVars>>
    \/ NodeBindCtx /\ UNCHANGED <<canonVars, schedVars>>

CacheSpec == CacheStart /\ [][CacheNext]_vars

(***************************************************************************)
(* Claims about the scheduler, checked under SchedSpec.                    *)
(***************************************************************************)

\* C1: a burst of n >= 1 change notifications delivered between two ticks (none
\* of them during update()) gets exactly one update() invocation, not n: every
\* burst that has begun has had one update(), except the current one, for which
\* exactly one timer (the one the first notification armed) is pending; and once
\* that update() has returned no timer is left to invoke a second one.
C1_OneUpdatePerBurst ==
    /\ ~reentered => updates = bursts - (IF burst > 0 THEN 1 ELSE 0)
    /\ (~in_update /\ burst > 0) => (update_timer # None /\ timers = {update_timer})
    /\ (~in_update /\ burst = 0 /\ ~reentered) => (update_timer = None /\ timers = {})

\* A burst of at least two notifications has been served by a tick that returned.
C1_Witness ==
    /\ ~in_update
    /\ ~reentered
    /\ last_burst >= 2
    /\ updates = 1
    /\ bursts = 1
    /\ burst = 0

\* C2: a change notification delivered while update() executes re-arms the
\* timer: once that update() has returned, a timer is armed for it.
C2_ChangeDuringUpdateRearms ==
    (~in_update /\ owed > 0) => (update_timer # None /\ update_timer \in timers)

\* C3: at most one interval timer is live and update_timer is non-None exactly
\* when one is; a timer is armed only by a change notification that arrives
\* while update_timer is None; every update() ends with the timer cleared and
\* update_timer None.
C3_TimerStep ==
    /\ Cardinality(timers) <= 1
    /\ Cardinality(timers') <= 1
    /\ (update_timer # None) <=> (timers # {})
    /\ (update_timer' # None) <=> (timers' # {})
    /\ update_timer' # None => timers' = {update_timer'}
    /\ (timers' \ timers # {}) =>
          /\ update_timer = None
          /\ timers = {}
          /\ \/ burst' = burst + 1
             \/ reentrant' = reentrant + 1
    /\ (in_update /\ ~in_update') => (timers' = {} /\ update_timer' = None)

C3_OneTimer == [][C3_TimerStep]_vars

\* After a tick has been served, a fresh notification has armed the one timer again.
C3_Witness ==
    /\ updates >= 1
    /\ ~in_update
    /\ update_timer # None
    /\ timers = {update_timer}
    /\ burst = 1

(***************************************************************************)
(* Claims about PrefixLookupDict, checked under CanonSpec.                 *)
(***************************************************************************)

\* The characters of a canonical key.
CanonChars == {"T", "F"}

\* key2 is reached from key1 by changing the case of letters and by inserting
\* and deleting '-' and '_' only: the two spellings canonicalise to the same
\* string and resolve to the same entry of the dict.
SpellingsAgree ==
    /\ Canonical(prefix, key1) = Canonical(prefix, key2)
    /\ GetItem(store, prefix, key1) = GetItem(store, prefix, key2)
    /\ Contains(store, prefix, key1) = Contains(store, prefix, key2)

\* C4 as claimed: _canonical is total and idempotent for every configured
\* prefix, and two keys that differ only in letter case and in '-' and '_'
\* canonicalise to the same string and resolve to the same entry.
C4_CanonicalIdempotent ==
    /\ Canonical(prefix, key1) \in Strings(CanonChars, MaxKeyLen)
    /\ Canonical(prefix, Canonical(prefix, key1)) = Canonical(prefix, key1)
    /\ SpellingsAgree

\* C4 as amended: _canonical is total; canonicalising twice gives the same as
\* once exactly when the prefix is empty or the canonical key does not start
\* with the prefix again; and two keys that differ only in letter case and in
\* '-' and '_' canonicalise to the same string and resolve to the same entry.
C4_CanonicalOncePrefix ==
    /\ Canonical(prefix, key1) \in Strings(CanonChars, MaxKeyLen)
    /\ (Canonical(prefix, Canonical(prefix, key1)) = Canonical(prefix, key1))
         <=> (prefix = <<>> \/ ~StartsWith(Canonical(prefix, key1), prefix))
    /\ SpellingsAgree

\* Under a non-empty prefix, a stored name is found by a key spelled with the
\* prefix, a '-' and another case than the spelling beside it.
C4_Witness ==
    /\ prefix = <<"T">>
    /\ key1 = <<"t", "f">>
    /\ key2 = <<"T", "f">>
    /\ Canonical(prefix, key1) = <<"F">>
    /\ GetItem(store, prefix, key1) # KeyError

(***************************************************************************)
(* Claims about discovery, checked under CompileSpec.                      *)
(***************************************************************************)

\* The attribute values an entry of an assignment list holds.
EntryValues(ent) == {ent.args[i] : i \in 1..Len(ent.args)}
                      \cup {ent.kwargs[k] : k \in DOMAIN ent.kwargs}

\* C5: the assignment list the first pass produces is in ascending order of
\* priority whatever the order of the attributes on the element, and entries of
\* equal priority keep the order in which their attributes were met (an
\* attribute's value is its position on the element).
C5_SortedByPriority ==
    \A e \in 1..Len(elems) :
        \A i, j \in 1..Len(discovered[e]) :
            i < j =>
                /\ discovered[e][i].meta.priority <= discovered[e][j].meta.priority
                /\ discovered[e][i].meta.priority = discovered[e][j].meta.priority
                     => discovered[e][i].args[1] < discovered[e][j].args[1]

\* The priority-20 attribute comes first on the element and second in the list,
\* after two entries of priority 10 in the order of their attributes.
C5_Witness ==
    /\ Len(discovered[1]) = 3
    /\ discovered[1][1].meta.priority = 10
    /\ discovered[1][2].meta.priority = 10
    /\ discovered[1][3].meta.priority = 20
    /\ discovered[1][3].args = <<1>>
    /\ discovered[1][1].args[1] < discovered[1][2].args[1]

\* C6: after discovery no attribute that an entry of the assignment list holds
\* as its positional or as a keyword argument is left on the element, and no
\* attribute of the element is held by two entries (or twice by one).
C6_AttributesConsumedOnce ==
    \A e \in 1..Len(elems) :
        /\ \A i \in 1..Len(discovered[e]) :
               \A a \in 1..Len(elems[e].attributes) :
                   elems[e].attributes[a].value \notin EntryValues(discovered[e][i])
        /\ \A i, j \in 1..Len(discovered[e]) :
               i # j => EntryValues(discovered[e][i]) \cap EntryValues(discovered[e][j]) = {}
        /\ \A i \in 1..Len(discovered[e]) :
               /\ \A k \in DOMAIN discovered[e][i].kwargs :
                      discovered[e][i].kwargs[k] # discovered[e][i].args[1]
               /\ \A k1, k2 \in DOMAIN discovered[e][i].kwargs :
                      k1 # k2 => discovered[e][i].kwargs[k1] # discovered[e][i].kwargs[k2]

\* Two plugins that both declare the argument 'name' were found on an element
\* with a 'name' attribute: the first took it, the second got none.
C6_Witness ==
    /\ Len(discovered[1]) = 2
    /\ DOMAIN discovered[1][1].kwargs = {s_name}
    /\ DOMAIN discovered[1][2].kwargs = {}
    /\ discovered[1][1].meta.class # discovered[1][2].meta.class
    /\ \A a \in 1..Len(elems[1].attributes) : elems[1].attributes[a].name # s_name

\* C7: discovery runs at most once per markup element over any sequence of
\* compilations and clones, and every TplNode has a plugin object constructed
\* for it alone.
C7_DiscoveryOnce ==
    /\ \A e \in 1..Len(elems) : discoveries[e] <= 1
    /\ \A h1, h2 \in DOMAIN nodes : h1 # h2 => nodes[h1].plugin # nodes[h2].plugin

\* The plugin object of the TplNode the last operation was invoked on.
Callee == nodes[call.target].plugin

\* C8: a step in which bind_ctx is invoked on an Include whose name is not in
\* the context's template cache raises the lookup error in that call and
\* creates no TplNode, no plugin object and no instance for the include; and an
\* update() raises only on an include that was never bound or whose bind_ctx
\* had raised.
C8_Step ==
    /\ (/\ call'.op = "bind_ctx"
        /\ objs[nodes[call'.target].plugin].cls = "Include"
        /\ objs[nodes[call'.target].plugin].name \notin DOMAIN TEMPLATE_CACHE[call'.arg])
       => /\ err' = "KeyError"
          /\ nodes[call'.target].plugin \in bind_errors'
          /\ hash_seq' = hash_seq
          /\ nodes' = nodes
          /\ Len(objs') = Len(objs)
          /\ objs'[nodes[call'.target].plugin].tpl_instance = Unset
          /\ TEMPLATE_CACHE' = TEMPLATE_CACHE
    /\ (call'.op = "update" /\ err' # "")
       => /\ objs[nodes[call'.target].plugin].cls = "Include"
          /\ \/ objs[nodes[call'.target].plugin].ctx = None
             \/ nodes[call'.target].plugin \in bind_errors

C8_BindMissFails == [][C8_Step]_vars

\* An include was bound in a context that has no definition of its name: the
\* call raised, and the include holds no instance.
C8_Witness ==
    /\ call.op = "bind_ctx"
    /\ err = "KeyError"
    /\ objs[Callee].cls = "Include"
    /\ objs[Callee].ctx = call.arg
    /\ objs[Callee].name \notin DOMAIN TEMPLATE_CACHE[call.arg]
    /\ objs[Callee].tpl_instance = Unset
    /\ \E c \in Ctxs : objs[Callee].name \in DOMAIN TEMPLATE_CACHE[c]

\* The Include objects that hold an instance.
Included == {o \in 1..Len(objs) : objs[o].cls = "Include" /\ objs[o].tpl_instance # Unset}

\* The plugin object of the instance the include o holds.
InstancePlugin(o) == nodes[objs[o].tpl_instance].plugin

\* C9: the instances two includes hold are distinct TplNodes with distinct
\* plugin objects, none of them the compiled node of a definition or its
\* plugin; an instantiate returns a TplNode and a plugin object that did not
\* exist before; and no operation changes the instances of two includes.
C9_Step ==
    /\ \A a, b \in Included' :
          a # b => /\ objs'[a].tpl_instance # objs'[b].tpl_instance
                   /\ nodes'[objs'[a].tpl_instance].plugin # nodes'[objs'[b].tpl_instance].plugin
    /\ \A a \in Included', t \in 1..Len(objs') :
          (objs'[t].cls = "TemplatePlugin" /\ objs'[t].template # Unset)
          => /\ objs'[a].tpl_instance # objs'[t].template
             /\ nodes'[objs'[a].tpl_instance].plugin # nodes'[objs'[t].template].plugin
    /\ \A a \in Included' \ Included :
          /\ objs'[a].tpl_instance \notin DOMAIN nodes
          /\ nodes'[objs'[a].tpl_instance].plugin > Len(objs)
    /\ \A a, b \in Included :
          (a # b /\ objs'[InstancePlugin(a)] # objs[InstancePlugin(a)])
          => /\ objs'[InstancePlugin(b)] = objs[InstancePlugin(b)]
             /\ objs'[b] = objs[b]
             /\ nodes'[objs[b].tpl_instance] = nodes[objs[b].tpl_instance]

C9_IndependentInstances == [][C9_Step]_vars

\* Two includes hold instances of the same definition, bound to the same
\* context, and one of them was updated after the context's data changed.
C9_Witness ==
    \E a, b \in Included :
        /\ a # b
        /\ objs[a].name = objs[b].name
        /\ objs[InstancePlugin(a)].ctx = objs[InstancePlugin(b)].ctx
        /\ objs[InstancePlugin(a)].shown # objs[InstancePlugin(b)].shown
        /\ call.op = "update"

\* C10: when the fetch of a TemplatePlugin constructed with a src fails, the
\* constructor raises nothing and ends with an empty body, the compiled node
\* and the name; a bind of that plugin raises nothing and leaves it in the
\* context's template cache under its name.
C10_Step ==
    /\ (call'.op = "fetch" /\ call'.arg = 0 /\ objs[call'.target].fetching)
       => /\ err' = ""
          /\ ~objs'[call'.target].fetching
          /\ objs'[call'.target].body = "empty"
          /\ objs'[call'.target].name = objs[call'.target].args[1]
          /\ objs'[call'.target].template \in DOMAIN nodes'
          /\ objs'[call'.target].template \notin DOMAIN nodes
    /\ (call'.op = "bind" /\ objs[call'.target].body = "empty")
       => /\ err' = ""
          /\ objs[call'.target].name \in DOMAIN TEMPLATE_CACHE'[call'.arg]
          /\ TEMPLATE_CACHE'[call'.arg][objs[call'.target].name] = call'.target

C10_FetchFailureBinds == [][C10_Step]_vars

\* A definition constructed with a src whose fetch failed was bound, and the
\* context's template cache holds it under its name.
C10_Witness ==
    /\ call.op = "bind"
    /\ err = ""
    /\ objs[call.target].body = "empty"
    /\ s_src \in DOMAIN objs[call.target].kwargs
    /\ TEMPLATE_CACHE[call.arg][objs[call.target].name] = call.target

(***************************************************************************)
(* Claims about the template cache, checked under CacheSpec.               *)
(***************************************************************************)

\* C11: a bind of a definition named n into a context stores the definition
\* under n in that context's cache, in place of what n held, and changes no
\* other entry and no other context's cache; nothing but a bind changes a
\* cache; a bind_ctx of an Include of n resolves exactly when the cache of its
\* context holds n, and the instance the include then holds is a clone of the
\* compiled node of the definition stored under n.
C11_Step ==
    /\ (call'.op = "bind" /\ objs[call'.target].name # Unset)
       => /\ err' = ""
          /\ TEMPLATE_CACHE'[call'.arg] =
                DictPut(TEMPLATE_CACHE[call'.arg], objs[call'.target].name, call'.target)
          /\ \A c \in Ctxs \ {call'.arg} : TEMPLATE_CACHE'[c] = TEMPLATE_CACHE[c]
    /\ TEMPLATE_CACHE' # TEMPLATE_CACHE => call'.op = "bind"
    /\ (call'.op = "bind_ctx" /\ objs[nodes[call'.target].plugin].cls = "Include")
       => /\ err' = "" <=> objs[nodes[call'.target].plugin].name
                               \in DOMAIN TEMPLATE_CACHE[call'.arg]
          /\ err' = ""
             => /\ objs'[nodes[call'.target].plugin].tpl_instance \in DOMAIN nodes' \ DOMAIN nodes
                /\ objs'[nodes'[objs'[nodes[call'.target].plugin].tpl_instance].plugin].elem
                      = objs[TEMPLATE_CACHE[call'.arg]
                                [objs[nodes[call'.target].plugin].name]].elem

C11_CacheOfContext == [][C11_Step]_vars

\* An include holds an instance of a definition of its name, and a later
\* definition of the same name has taken the first one's place in the cache
\* of the include's context while the other context's cache has no such name.
C11_Witness ==
    \E o \in Included, c \in Ctxs :
        /\ objs[o].ctx = c
        /\ objs[o].name \in DOMAIN TEMPLATE_CACHE[c]
        /\ objs[TEMPLATE_CACHE[c][objs[o].name]].elem # objs[InstancePlugin(o)].elem
        /\ \E c2 \in Ctxs : objs[o].name \notin DOMAIN TEMPLATE_CACHE[c2]
        /\ call.op = "bind"

(***************************************************************************)
(* Claims about Template.bind_ctx, checked under SchedSpec.                *)
(***************************************************************************)

\* C12: Template.bind_ctx puts the bound element, an element that was not in
\* the document before, in the parent at the place of the original element
\* and leaves the siblings where they were; Template.elem is the bound element
\* from then on and is a child of the parent exactly once; and from then on a
\* change notification of the root arms the update timer, while no timer is
\* armed before the template is bound.
C12_Step ==
    /\ (subscribed' /\ ~subscribed)
       => /\ tpl_elem' # tpl_elem
          /\ \A i \in DOMAIN childNodes : childNodes[i] # tpl_elem'
          /\ DOMAIN childNodes' = DOMAIN childNodes
          /\ \A i \in DOMAIN childNodes :
                childNodes'[i] = IF childNodes[i] = tpl_elem THEN tpl_elem'
                                 ELSE childNodes[i]
    /\ Cardinality({i \in DOMAIN childNodes' : childNodes'[i] = tpl_elem'}) = 1
    /\ (subscribed /\ (burst' = burst + 1 \/ reentrant' = reentrant + 1))
       => /\ update_timer' # None
          /\ update_timer' \in timers'
    /\ (~subscribed /\ ~subscribed') => update_timer' = None

C12_BoundElementInPlace == [][C12_Step]_vars

\* The template was bound while its element stood between two siblings: the
\* bound element stands there now, and a change has armed the timer.
C12_Witness ==
    /\ subscribed
    /\ Len(childNodes) = 3
    /\ childNodes[2] = tpl_elem
    /\ tpl_elem = 4
    /\ update_timer # None

(***************************************************************************)
(* Claims about TplNode.__init__, checked under CompileSpec.               *)
(***************************************************************************)

\* The step is TplNode(e) for the markup element e.
Compiles(e) ==
    /\ hash_seq' = hash_seq + 1
    /\ call'.op = "TplNode"
    /\ call'.target = e

\* The step is clone() of the TplNode h.
Clones(h) ==
    /\ hash_seq' = hash_seq + 1
    /\ call'.op = "clone"
    /\ call'.target = h

\* The step is a compilation pass over element e that finds its assignment
\* list cached (tpl.py:102, 125).
CachedPass(e) ==
    /\ Compiles(e)
    /\ elems[e].has_plugins
    /\ Len(elems[e].plugins) > 0

\* The step is a first pass over element e that completes discovery with a
\* list that is not empty (tpl.py:107-123).
FirstPass(e) ==
    /\ Compiles(e)
    /\ ~elems[e].has_plugins
    /\ elems'[e].has_plugins
    /\ Len(discovered'[e]) > 0

\* The step is a first pass over element e that completes discovery
\* (tpl.py:107-123).
FirstPassDone(e) ==
    /\ Compiles(e)
    /\ ~elems[e].has_plugins
    /\ elems'[e].has_plugins

\* The pass has removed the last entry of list and the node it constructs
\* holds a plugin of that entry's class, made from the element, the entry's
\* positional argument and its keyword arguments.
PoppedAndBuilt(e, list) ==
    /\ elems'[e].plugins = SubSeq(list, 1, Len(list) - 1)
    /\ err' = ""
    /\ hash_seq \in DOMAIN nodes'
    /\ objs'[nodes'[hash_seq].plugin].cls = list[Len(list)].meta.class
    /\ objs'[nodes'[hash_seq].plugin].elem = e
    /\ objs'[nodes'[hash_seq].plugin].args = list[Len(list)].args
    /\ objs'[nodes'[hash_seq].plugin].kwargs = list[Len(list)].kwargs

\* C13: every compilation pass over an element whose assignment list is not
\* empty, the first pass and every pass that finds the list cached, removes
\* the last entry and makes the node's plugin an instance of that entry's
\* class, constructed with the element, the entry's positional argument and
\* its keyword arguments; the other entries stay cached.
C13_Step ==
    \A e \in 1..Len(elems) :
        /\ FirstPass(e) => PoppedAndBuilt(e, discovered'[e])
        /\ CachedPass(e) => PoppedAndBuilt(e, elems[e].plugins)

C13_PopBuildsLastEntry == [][C13_Step]_vars

\* The first passes alone.
C13_FirstPassOnly ==
    [][\A e \in 1..Len(elems) : FirstPass(e) => PoppedAndBuilt(e, discovered'[e])]_vars

\* The step is a first pass over element e, whose tag name is the name of a
\* registered plugin (tpl.py:119).
TagPass(e) ==
    /\ Compiles(e)
    /\ ~elems[e].has_plugins
    /\ Contains(PLUGINS.d, PLUGINS.prefix, elems[e].nodeName)

\* C14: the first pass over an element whose tag name is the name of a
\* registered plugin completes discovery and caches a list whose last entry
\* is that plugin's descriptor with no positional argument and with keyword
\* arguments taken from attributes of the element; no other entry of the list
\* is without positional argument.
C14_Step ==
    \A e \in 1..Len(elems) :
        TagPass(e)
        => /\ elems'[e].has_plugins
           /\ Len(discovered'[e]) > 0
           /\ discovered'[e][Len(discovered'[e])].meta
                 = GetItem(PLUGINS.d, PLUGINS.prefix, elems[e].nodeName)
           /\ discovered'[e][Len(discovered'[e])].args = <<>>
           /\ \A k \in DOMAIN discovered'[e][Len(discovered'[e])].kwargs :
                 \E i \in 1..Len(elems[e].attributes) :
                    elems[e].attributes[i].value
                       = discovered'[e][Len(discovered'[e])].kwargs[k]
           /\ \A i \in 1..(Len(discovered'[e]) - 1) : discovered'[e][i].args # <<>>

C14_TagPluginAppended == [][C14_Step]_vars

\* The node the step constructs holds a new plugin of class cls on element e.
Built(e, cls) ==
    /\ err' = ""
    /\ hash_seq \in DOMAIN nodes'
    /\ nodes'[hash_seq].plugin \in (Len(objs) + 1)..Len(objs')
    /\ objs'[nodes'[hash_seq].plugin].cls = cls
    /\ objs'[nodes'[hash_seq].plugin].elem = e

\* The step is a pass over element e that has its list, and the list is empty
\* (tpl.py:125-128).
EmptyListPass(e) ==
    /\ Compiles(e)
    /\ elems[e].nodeName # s_text
    /\ elems'[e].has_plugins
    /\ (IF elems[e].has_plugins THEN elems[e].plugins ELSE discovered'[e]) = <<>>

\* C15: a pass over a text node constructs a text-interpolation plugin; a pass
\* over an element whose list is empty constructs an attribute-interpolation
\* plugin if the element has an attribute left, a generic-tag plugin if it
\* has none; and every TplNode constructed holds one plugin object.
C15_Step ==
    /\ \A e \in 1..Len(elems) :
          /\ (Compiles(e) /\ elems[e].nodeName = s_text) => Built(e, "TextPlugin")
          /\ (EmptyListPass(e) /\ Len(elems'[e].attributes) > 0)
             => Built(e, "InterpolatedAttrsPlugin")
          /\ (EmptyListPass(e) /\ Len(elems'[e].attributes) = 0)
             => Built(e, "GenericTagPlugin")
    /\ \A h \in DOMAIN nodes' : nodes'[h].plugin \in 1..Len(objs')

C15_FallbackPlugins == [][C15_Step]_vars

\* An element whose only plugin has been taken by the first pass was compiled
\* again and got the attribute-interpolation plugin for the attribute left.
C15_Witness ==
    \E e \in 1..Len(elems), h \in DOMAIN nodes :
        /\ elems[e].has_plugins
        /\ elems[e].plugins = <<>>
        /\ discovered[e] # <<>>
        /\ Len(elems[e].attributes) > 0
        /\ objs[nodes[h].plugin].cls = "InterpolatedAttrsPlugin"
        /\ call.op = "TplNode"

\* The parameters a plugin class declares, self and the element excluded.
Declared(c) == {ClassDef(c).params[j] : j \in 3..Len(ClassDef(c).params)}

\* The attribute a of an element spells, under the registry's
\* canonicalisation, the declared argument name 'name' and no plugin's name.
SpellsName(a) ==
    /\ Canonical(PLUGINS.prefix, a.name) = Canonical(PLUGINS.prefix, s_name)
    /\ ~Contains(PLUGINS.d, PLUGINS.prefix, a.name)

\* C16: with the prefix 'tpl-' configured, a first pass that finds a plugin
\* declaring the argument 'name' removes from the element every attribute
\* spelled 'tpl-name' or 'name' and records the value of one of them as the
\* keyword argument 'name' of an entry; and every keyword of every entry is a
\* declared constructor parameter of the entry's class.
C16_Step ==
    \A e \in 1..Len(elems) :
        (FirstPass(e) /\ PLUGINS.prefix = NormalPrefix(s_tpl_prefix))
        => /\ \A i \in 1..Len(elems[e].attributes) :
                 SpellsName(elems[e].attributes[i])
                 => /\ \A j \in 1..Len(elems'[e].attributes) :
                          elems'[e].attributes[j].name # elems[e].attributes[i].name
                    /\ \E k \in 1..Len(discovered'[e]) :
                          /\ s_name \in DOMAIN discovered'[e][k].kwargs
                          /\ \E i2 \in 1..Len(elems[e].attributes) :
                                /\ SpellsName(elems[e].attributes[i2])
                                /\ discovered'[e][k].kwargs[s_name]
                                      = elems[e].attributes[i2].value
           /\ \A k \in 1..Len(discovered'[e]) :
                 DOMAIN discovered'[e][k].kwargs \subseteq Declared(discovered'[e][k].meta.class)

C16_KwargsCanonical == [][C16_Step]_vars

\* The number of subscriptions of TplNode h to the 'change' event of object o.
Subscriptions(o, h) ==
    Cardinality({i \in 1..Len(objs[o].listeners) : objs[o].listeners[i] = h})

\* C17: every TplNode that has been constructed, whether as a clone, from a
\* text node, with a plugin of its element's list, with the
\* attribute-interpolation plugin or with the generic-tag plugin, is
\* subscribed exactly once to the 'change' event of its plugin, and to no
\* other plugin's.
C17_SubscribedOnce ==
    \A h \in DOMAIN nodes, o \in 1..Len(objs) :
        Subscriptions(o, h) = IF o = nodes[h].plugin THEN 1 ELSE 0

\* Three TplNodes exist: one holds a plugin its element's attribute named,
\* one holds the attribute-interpolation plugin of a later pass, and the
\* third is a clone.
C17_Witness ==
    /\ call.op = "clone"
    /\ \E h1, h2 \in DOMAIN nodes :
          /\ objs[nodes[h1].plugin].cls \in PluginClasses
          /\ objs[nodes[h2].plugin].cls = "InterpolatedAttrsPlugin"
          /\ hash_seq - 1 \in DOMAIN nodes \ {h1, h2}

\* C18: a first pass that completes discovery has captured every attribute
\* of the element whose name is the name of a registered plugin as exactly
\* one entry, with the attribute's value as its positional argument and the
\* plugin's descriptor, and has removed the attribute from the element.
C18_Step ==
    \A e \in 1..Len(elems) :
        FirstPassDone(e)
        => \A i \in 1..Len(elems[e].attributes) :
              Contains(PLUGINS.d, PLUGINS.prefix, elems[e].attributes[i].name)
              => /\ \A j \in 1..Len(elems'[e].attributes) :
                       elems'[e].attributes[j].name # elems[e].attributes[i].name
                 /\ Cardinality({k \in 1..Len(discovered'[e]) :
                        /\ discovered'[e][k].args = <<elems[e].attributes[i].value>>
                        /\ discovered'[e][k].meta
                              = GetItem(PLUGINS.d, PLUGINS.prefix,
                                        elems[e].attributes[i].name)}) = 1

C18_PluginAttributesCaptured == [][C18_Step]_vars

\* C19: every construction of a TplNode, from markup or as a clone, whether
\* it completes or raises, advances _HASH_SEQ by one and nothing else changes
\* it, so that _HASH_SEQ counts the constructions started; the node a
\* construction leaves has the value _HASH_SEQ had before as its identifier,
\* which is greater than the identifier of every node constructed before and
\* less than _HASH_SEQ afterwards; and no node constructed before is replaced.
C19_Step ==
    /\ PLUGINS' = PLUGINS => hash_seq' = hash_seq + 1
    /\ PLUGINS' # PLUGINS => hash_seq' = hash_seq /\ nodes' = nodes
    /\ \A h \in DOMAIN nodes' \ DOMAIN nodes :
          /\ h = hash_seq
          /\ \A g \in DOMAIN nodes : g < h
    /\ \A g \in DOMAIN nodes : g \in DOMAIN nodes' /\ nodes'[g] = nodes[g]
    /\ \A h \in DOMAIN nodes' : h < hash_seq'
    /\ (PLUGINS' = PLUGINS /\ err' = "") => hash_seq \in DOMAIN nodes' \ DOMAIN nodes

C19_HashSequence == [][C19_Step]_vars

\* Three constructions have started: the first made node 0, the second raised
\* and left no node, and the third, a clone, made node 2.
C19_Witness ==
    /\ hash_seq = 3
    /\ DOMAIN nodes = {0, 2}
    /\ call.op = "clone"

\* C20: a clone() of a TplNode changes no markup element (its attributes and
\* its cached list), not the registry, no TplNode that existed and no plugin
\* object that existed, the source's plugin included; it adds one TplNode,
\* with the next identifier, and one plugin object, the one the source
\* plugin's clone() returned, of the source plugin's class and element, whose
\* only subscriber is the new node.
C20_Step ==
    \A h \in DOMAIN nodes :
        Clones(h)
        => /\ elems' = elems
           /\ PLUGINS' = PLUGINS
           /\ discoveries' = discoveries
           /\ discovered' = discovered
           /\ err' = ""
           /\ DOMAIN nodes' = DOMAIN nodes \cup {hash_seq}
           /\ hash_seq \notin DOMAIN nodes
           /\ \A g \in DOMAIN nodes : nodes'[g] = nodes[g]
           /\ Len(objs') = Len(objs) + 1
           /\ \A o \in 1..Len(objs) : objs'[o] = objs[o]
           /\ nodes'[hash_seq].plugin = Len(objs')
           /\ objs'[Len(objs')].listeners = <<hash_seq>>
           /\ objs'[Len(objs')].cls = objs[nodes[h].plugin].cls
           /\ objs'[Len(objs')].elem = objs[nodes[h].plugin].elem

C20_CloneFrame == [][C20_Step]_vars

\* A node whose element still has a cached entry and an attribute has been
\* cloned: the clone holds a plugin object of its own.
C20_Witness ==
    /\ call.op = "clone"
    /\ call.target \in DOMAIN nodes
    /\ hash_seq - 1 \in DOMAIN nodes
    /\ nodes[hash_seq - 1].plugin # nodes[call.target].plugin
    /\ objs[nodes[hash_seq - 1].plugin].cls = objs[nodes[call.target].plugin].cls
    /\ objs[nodes[call.target].plugin].cls \in PluginClasses
    /\ \E e \in 1..Len(elems) : Len(elems[e].plugins) > 0 /\ Len(elems[e].attributes) > 0

====
